---- MODULE Spec2Model ----
(***************************************************************************)
(* Model of bankrot-parser (src/main.py): the incremental                  *)
(* crawl - extract - dedupe - export pipeline.                             *)
(*                                                                         *)
(* Text is modelled as a sequence of tokens, so that the string operations *)
(* of the code (startswith, split("#")[0], strip, concatenation) are       *)
(* computed and not assumed:                                               *)
(*   "http"   the text "https://bankrotbaza.ru" (BASE_URL, no final "/")   *)
(*   "/lot/"  the path prefix of a lot page, followed by the lot's number  *)
(*   "#"      the fragment separator, followed by the fragment's text      *)
(*   " "      white space                                                  *)
(***************************************************************************)
EXTENDS Integers, Sequences, FiniteSets, TLC

VARIABLES
    pc,            \* position of the main script (__main__) in the current run
    runNo,         \* number of the current run of the script
    cookies,       \* auth_cookies.json on disk: "missing" or "present"
    listing_parser, \* the browser session of __main__ (listing_parser): "none",
                   \* "open", "closed", "failed" (no browser was started),
                   \* "leaked" (the browser runs, the constructor raised)
    net,           \* history: the run has made a network request
    catalog,       \* which catalog the site serves (environment)
    max_lots,      \* get_listing_urls: parameter max_lots
    lot_links,     \* get_listing_urls: local set lot_links
    current_page,  \* get_listing_urls: local current_page
    fetched,       \* history: one entry per listing page requested by the walker
    all_links,     \* __main__: all_links, the list the walker returned
    seenFile,      \* content of seen_lots.json on disk
    tmpFile,       \* content of seen_lots.json.tmp on disk
    store_seen,    \* SeenLotsStore.seen of the current run
    loadOk,        \* history: whether store.load() of this run read the file
    new_links,     \* __main__: new_links
    workers,       \* the futures of worker_parse, one per chunk
    outcome,       \* history: what parse_lot_page did with each identifier this run
    results_rows,  \* __main__: results_rows
    parsed_urls,   \* __main__: parsed_urls
    ws_main,       \* sheet ALL of the saved workbook (rows, header first)
    ws_docs,       \* sheet Documents of the saved workbook (rows, header first)
    rowsBefore,    \* history: rows of sheet ALL when the current run started
    prev,          \* history: summary of the previous run
    items,         \* chunk_list: argument items
    n_chunks,      \* chunk_list: argument n_chunks
    chunks,        \* chunk_list: returned list of chunks
    batches        \* history: the batches handed to append_rows_with_documents

vars == << pc, runNo, cookies, listing_parser, net, tmpFile, catalog, max_lots, lot_links, current_page, fetched,
           all_links, seenFile, store_seen, loadOk, new_links, workers,
           outcome, results_rows, parsed_urls, ws_main, ws_docs, rowsBefore,
           prev, items, n_chunks, chunks, batches >>

walkVars == << lot_links, current_page, fetched, all_links >>
seenVars == << seenFile, store_seen, loadOk, new_links >>
poolVars == << workers, outcome, results_rows, parsed_urls >>
bookVars == << ws_main, ws_docs >>
chunkVars == << items, n_chunks, chunks >>
envVars == << cookies, listing_parser, net, tmpFile >>

(***************************************************************************)
(* Bounds of the model.                                                    *)
(***************************************************************************)
MaxRuns == 2        \* runs of the script in one behaviour
MaxTarget == 4      \* largest max_lots handed to the walker on its own
MaxItems == 3       \* longest list handed to chunk_list on its own
MaxChunks == 3      \* largest n_chunks handed to chunk_list on its own
MaxRows == 3        \* records handed to append_rows_with_documents on its own

(***************************************************************************)
(* Program constants.                                                      *)
(***************************************************************************)
MAX_LOTS == 500
WORKERS == 3

\* The sentinel strings of the extractor (Cyrillic in the source, lines 393, 579).
NOT_FOUND == "NotFound"
ABSENT == "Absent"

(***************************************************************************)
(* Generic helpers on sequences and sets.                                  *)
(***************************************************************************)
Range(s) == { s[i] : i \in 1..Len(s) }

Max(a, b) == IF a >= b THEN a ELSE b

Min(a, b) == IF a <= b THEN a ELSE b

\* All the orders in which the elements of a finite set can be listed.
Perms(S) == { s \in [1..Cardinality(S) -> S] : Range(s) = S }

StartsWith(s, tok) == Len(s) > 0 /\ s[1] = tok

\* str.split("#")[0]: the text before the first "#".
RECURSIVE SplitHash0(_)
SplitHash0(s) ==
    IF s = << >> \/ Head(s) = "#" THEN << >>
    ELSE << Head(s) >> \o SplitHash0(Tail(s))

(***************************************************************************)
(* The site: listing pages.  page_source of listing page p of a catalog is *)
(* the list of the href attributes of its anchors a[href*='/lot/'], in     *)
(* page order.                                                             *)
(***************************************************************************)
BASE_URL == << "http" >>

Rel(n) == << "/lot/", ToString(n) >>
Abs(n) == << "http", "/lot/", ToString(n) >>
Frag(h) == h \o << "#", "f" >>
OnlyFrag(n) == << "#", "/lot/", ToString(n) >>

Catalogs == { "main", "small", "overlap", "fresh", "empty" }

PageSource(c, p) ==
    CASE c = "main" ->
            IF p = 1 THEN << Rel(1), Frag(Rel(2)) >>
            ELSE IF p = 2 THEN << Abs(2), Rel(3), OnlyFrag(9), Frag(Abs(4)) >>
            ELSE << >>
      [] c = "small" ->
            IF p = 1 THEN << Rel(1), OnlyFrag(9) >>
            ELSE IF p = 2 THEN << Frag(Abs(1)), Frag(Rel(1)), Frag(Rel(3)) >>
            ELSE << >>
      [] c = "overlap" ->
            IF p = 1 THEN << Rel(1), Rel(2) >>
            ELSE << Rel(2), Rel(3) >>
      [] c = "fresh" -> << Rel(p) >>
      [] OTHER -> << >>

(***************************************************************************)
(* BankrotParser.get_listing_urls                                          *)
(***************************************************************************)
\* Lines 548-550: the anchors the loop passes over.
Skipped(href) == href = << >> \/ StartsWith(href, "#")

\* Variant: the fragment is kept.
NormalizeKeepFragment(href) ==
    IF StartsWith(href, "http") THEN href ELSE BASE_URL \o href

\* Lines 551-552: the identifier an href stands for.
Normalize(href) ==
    SplitHash0(IF StartsWith(href, "http") THEN href ELSE BASE_URL \o href)

\* Variant: the for loop without the test of lines 546-547.
RECURSIVE AddLinksNoCap(_, _, _)
AddLinksNoCap(links, acc, cap) ==
    IF links = << >> THEN acc
    ELSE AddLinksNoCap(Tail(links),
                       IF Skipped(Head(links)) THEN acc
                       ELSE acc \cup { Normalize(Head(links)) }, cap)

\* Lines 545-552: the for loop over the anchors of one page.
RECURSIVE AddLinks(_, _, _)
AddLinks(links, acc, cap) ==
    IF links = << >> \/ Cardinality(acc) >= cap THEN acc
    ELSE AddLinks(Tail(links),
                  IF Skipped(Head(links)) THEN acc
                  ELSE acc \cup { Normalize(Head(links)) }, cap)

\* What the browser shows after driver.get(url) for listing page p (lines
\* 526-538): "ok" the page asked for, "stale" the page shown before (get
\* raised and the exception was swallowed), "timeout" no anchor in time,
\* "raise" an exception other than TimeoutException from the wait or from
\* page_source (the browser died), which leaves get_listing_urls.
FetchOutcomes(p) ==
    IF p > 1 THEN { "ok", "stale", "timeout", "raise" }
    ELSE { "ok", "timeout", "raise" }

Shown(p, o) == IF o = "ok" THEN p ELSE IF o = "stale" THEN p - 1 ELSE 0

\* The while condition of line 521.
LoopGuard == Cardinality(lot_links) < max_lots

\* Variant: the test of line 556 left out.
NoNewWrong(before, after) == FALSE

\* The test of line 556.
NoNew(before, after) == after = before

\* return list(lot_links), line 563: a set is listed in no particular order;
\* the finally clause of lines 673-674 closes the listing session.
ListingDone(links) ==
    /\ all_links' \in Perms(links)
    /\ listing_parser' = "closed"
    /\ pc' = "filter"

\* An exception leaves get_listing_urls: the finally clause of lines 673-674
\* closes the listing session and the exception ends the script.
ListingRaise ==
    /\ listing_parser' = "closed"
    /\ pc' = "aborted"
    /\ UNCHANGED all_links

\* One evaluation of the while statement (lines 521-561): an iteration of
\* the loop, or the return of line 563 when the condition is false.
ListingPage ==
    /\ pc = "walk"
    /\ IF ~LoopGuard
       THEN /\ ListingDone(lot_links)
            /\ UNCHANGED << lot_links, current_page, fetched, net >>
       ELSE \E o \in FetchOutcomes(current_page) :
         LET links == IF o \in { "timeout", "raise" } THEN << >>
                      ELSE PageSource(catalog, Shown(current_page, o))
             before == Cardinality(lot_links)
             after == AddLinks(links, lot_links, max_lots)
             entry == [ page |-> current_page, shown |-> Shown(current_page, o),
                        anchors |-> Len(links), before |-> before,
                        total |-> Cardinality(after) ]
         IN /\ fetched' = Append(fetched, entry)
            /\ net' = TRUE
            /\ IF links = << >>
               THEN \* lines 534-536 and 540-542: break
                    /\ UNCHANGED << lot_links, current_page >>
                    /\ IF o = "raise" THEN ListingRaise
                       ELSE ListingDone(lot_links)
               ELSE /\ lot_links' = after
                    /\ IF NoNew(before, Cardinality(after))
                       THEN /\ UNCHANGED current_page
                            /\ ListingDone(after)
                       ELSE /\ current_page' = current_page + 1
                            /\ UNCHANGED << all_links, listing_parser, pc >>
    /\ UNCHANGED << cookies, tmpFile, runNo, catalog, max_lots, seenVars, poolVars, bookVars,
                    rowsBefore, prev, chunkVars, batches >>

(***************************************************************************)
(* chunk_list (lines 640-645)                                              *)
(***************************************************************************)
\* The for loop of lines 643-644; idx counts from 0 as enumerate does.
RECURSIVE ChunkLoop(_, _, _, _)
ChunkLoop(its, idx, n, acc) ==
    IF idx >= Len(its) THEN acc
    ELSE ChunkLoop(its, idx + 1, n,
                   [acc EXCEPT ![(idx % n) + 1] = Append(@, its[idx + 1])])

\* Variant: consecutive blocks of equal size instead of round robin.
chunk_listBlocks(its, nc) ==
    LET n == Max(1, nc)
        size == (Len(its) + n - 1) \div n
    IN [ k \in 1..n |->
           SubSeq(its, Min((k - 1) * size + 1, Len(its) + 1), Min(k * size, Len(its))) ]

chunk_list(its, nc) ==
    LET n == Max(1, nc)
    IN ChunkLoop(its, 0, n, [ k \in 1..n |-> << >> ])

(***************************************************************************)
(* SeenLotsStore (lines 47-79).  The file seen_lots.json is a record:      *)
(* [kind |-> "missing"] when there is no file; else what the file holds:   *)
(*   [kind |-> "list", elems |-> <<...>>]   a JSON array                   *)
(*   [kind |-> "dict", fields |-> [...]]    a JSON object                  *)
(*   [kind |-> "scalar"]                    a JSON number, string or null  *)
(*   [kind |-> "cut", elems |-> <<...>>]    the start of an array, cut off *)
(*   [kind |-> "garbage"]                   text that is not JSON          *)
(* An element of an array is a text (a sequence of tokens); the text that  *)
(* starts with "[" stands for a nested array, which Python reads as a list.*)
(***************************************************************************)
NoFile == [ kind |-> "missing" ]

JsonList(seq) == [ kind |-> "list", elems |-> seq ]

JsonDict(fields) == [ kind |-> "dict", fields |-> fields ]

JsonScalar == [ kind |-> "scalar" ]

Garbage == [ kind |-> "garbage" ]

CutList(seq) == [ kind |-> "cut", elems |-> seq ]

Nested == << "[", "]" >>

\* A value read from JSON can be put in a set unless it is a list (or a dict).
Hashable(e) == ~StartsWith(e, "[")

\* Variant: set(data) drops what it cannot hash and keeps the rest.
SetOfLenient(elems) ==
    [ raised |-> FALSE, val |-> { e \in Range(elems) : Hashable(e) } ]

\* set(data), lines 60 and 62: the elements, or TypeError (unhashable type)
\* when one of them is a list.
SetOf(elems) ==
    IF \A i \in 1..Len(elems) : Hashable(elems[i])
    THEN [ raised |-> FALSE, val |-> Range(elems) ]
    ELSE [ raised |-> TRUE, val |-> {} ]

\* json.load (line 58) raises on text that is not a JSON value.
Parses(file) == file.kind \in { "list", "dict", "scalar" }

\* The number behind an identifier's last token; identifiers that differ
\* only in it sort as their numbers do (single digits).
LotNo(u) == CHOOSE n \in 0..9 : ToString(n) = u[Len(u)]

\* sorted(self.seen), line 76.
RECURSIVE Sorted(_)
Sorted(S) ==
    IF S = {} THEN << >>
    ELSE LET m == CHOOSE x \in S : \A y \in S : LotNo(x) <= LotNo(y)
         IN << m >> \o Sorted(S \ {m})

\* Lines 59-64 of load: what is made of the value json.load returned.
LoadParsed(file) ==
    IF file.kind = "list" THEN SetOf(file.elems)
    ELSE IF /\ file.kind = "dict"
            /\ "seen" \in DOMAIN file.fields
            /\ file.fields["seen"].kind = "list"
         THEN SetOf(file.fields["seen"].elems)
    ELSE [ raised |-> FALSE, val |-> {} ]

\* Variant: no except clause, the error ends the run (the value "raise").
loadNoExcept(file, readable) ==
    IF file.kind = "missing" THEN {}
    ELSE IF ~readable \/ ~Parses(file) THEN { << "raise" >> }
    ELSE LoadParsed(file).val

\* load (lines 52-67): readable is FALSE when open() or the read raises;
\* that, a text json.load cannot parse and a TypeError of set() all end in
\* the except clause of line 65, which makes the set empty.
load(file, readable) ==
    IF file.kind = "missing" THEN {}
    ELSE IF ~readable \/ ~Parses(file) THEN {}
    ELSE IF LoadParsed(file).raised THEN {}
    ELSE LoadParsed(file).val

\* add_many (lines 69-72): an empty identifier is passed over.
add_many(seen, urls) == seen \cup { u \in Range(urls) : u # << >> }

\* save (lines 74-79): the file that os.replace puts in place.
save(seen) == JsonList(Sorted(seen))

\* The identifiers a file holds for a run that reads it.
Persisted(file) == load(file, TRUE)

(***************************************************************************)
(* The site: detail pages.  A rendered detail page is the record of what   *)
(* the markup holds for the extractors of lines 365-515:                   *)
(*   help    the two numbers of span.lot__help, << >> when there is no span *)
(*   prices  the block of the prices as a dictionary                           *)
(*   address what _extract_description_and_address finds                    *)
(*   links   the anchors of the documents area, (name, href) pairs          *)
(***************************************************************************)
Doc(n) == << "doc" \o ToString(n), "/files/" \o ToString(n) >>

DetailPage(u) ==
    CASE u = Abs(1) ->
           [ help |-> << "14", "982" >>,
             prices |-> [ start |-> "100", step |-> "5", deposit |-> "" ],
             address |-> "addr1",
             links |-> << Doc(1), Doc(2), Doc(1) >> ]
      [] u = Abs(2) ->
           [ help |-> << >>,
             prices |-> [ start |-> "200" ],
             address |-> NOT_FOUND,
             links |-> << Doc(3) >> ]
      [] u = Abs(3) ->
           [ help |-> << "3", "77" >>,
             prices |-> [ step |-> "1" ],
             address |-> NOT_FOUND,
             links |-> << Doc(4) >> ]
      [] u = Abs(4) ->
           [ help |-> << >>,
             prices |-> [ step |-> "2", deposit |-> "10" ],
             address |-> "addr4",
             links |-> << Doc(5), << "", "/files/6" >> >> ]
      [] OTHER ->
           [ help |-> << "5", "7" >>,
             prices |-> [ start |-> "300", deposit |-> "30" ],
             address |-> "addr5",
             links |-> << >> ]

(***************************************************************************)
(* BankrotParser.parse_lot_page and the extractors it uses                 *)
(***************************************************************************)
\* dict.get(key, default)
Get(d, k, default) == IF k \in DOMAIN d THEN d[k] ELSE default

\* _extract_lot_and_trade_numbers (lines 390-407): (lot_num, trade_num).
ExtractLotAndTrade(page) ==
    IF page.help = << >> THEN << NOT_FOUND, NOT_FOUND >> ELSE page.help

\* _extract_documents (lines 501-515): pairs with a name and an href, the
\* first of each href.
RECURSIVE Uniq(_, _)
Uniq(docs, seen) ==
    IF docs = << >> THEN << >>
    ELSE IF Head(docs)[2] \in seen THEN Uniq(Tail(docs), seen)
    ELSE << Head(docs) >> \o Uniq(Tail(docs), seen \cup { Head(docs)[2] })

ExtractDocuments(page) ==
    Uniq(SelectSeq(page.links, LAMBDA d : d[1] # "" /\ d[2] # ""), {})

\* Variant: an empty deposit is given the sentinel of a value not found.
ZadatokNotFound(prices) ==
    LET v == Get(prices, "deposit", NOT_FOUND)
    IN IF v = "" THEN NOT_FOUND ELSE v

\* Line 579: prices.get(deposit, absent) or absent; an empty text is falsy.
Zadatok(prices) ==
    LET v == Get(prices, "deposit", ABSENT)
    IN IF v = "" THEN ABSENT ELSE v

\* The row of lines 596-608, with the fields the claims are about; src is
\* history: the identifier the row was extracted from.
BuildRow(u, page) ==
    LET nums == ExtractLotAndTrade(page)
    IN [ key |-> << nums[2], " / ", nums[1] >>,
         address |-> page.address,
         price |-> Get(page.prices, "start", NOT_FOUND),
         deposit |-> Zadatok(page.prices),
         docs |-> ExtractDocuments(page),
         src |-> u ]

\* Variant: no record is judged empty.
IsEmptyRowNever(row) == FALSE

\* Lines 610-612: the record is judged empty.
IsEmptyRow(row) == row.price = NOT_FOUND /\ row.address = NOT_FOUND

\* What parse_lot_page hands back.  fetch is "ok" when the page was loaded and
\* parsed and "error" when anything in the try block raised (lines 566-618).
Parsed(u, row) == [ url |-> u, kind |-> "row", row |-> row ]

ParsedNone(u) == [ url |-> u, kind |-> "none" ]

Raised(u) == [ url |-> u, kind |-> "raise" ]

\* Variant: no except clause (lines 616-618), the exception leaves the method.
parse_lot_pageNoExcept(u, fetch) ==
    IF fetch = "error" THEN Raised(u)
    ELSE LET row == BuildRow(u, DetailPage(u))
         IN IF IsEmptyRow(row) THEN ParsedNone(u) ELSE Parsed(u, row)

parse_lot_page(u, fetch) ==
    IF fetch = "error" THEN ParsedNone(u)
    ELSE LET row == BuildRow(u, DetailPage(u))
         IN IF IsEmptyRow(row) THEN ParsedNone(u) ELSE Parsed(u, row)

(***************************************************************************)
(* The workbook (lines 148-318).  A sheet is the sequence of its rows, the *)
(* header first, so that row r of the sheet is element r and max_row is    *)
(* the length.  Both sheets empty: the file does not exist.                *)
(***************************************************************************)
MainHeader ==
    [ key |-> << "header" >>, address |-> "header", price |-> "header",
      deposit |-> "header", count |-> 0, link |-> 0, src |-> << >> ]

DocsHeader == [ key |-> << "header" >>, docs |-> << >> ]

\* str.strip(): white space off both ends.
RECURSIVE LStrip(_)
LStrip(s) == IF s # << >> /\ Head(s) = " " THEN LStrip(Tail(s)) ELSE s

RECURSIVE RStrip(_)
RStrip(s) ==
    IF s # << >> /\ s[Len(s)] = " " THEN RStrip(SubSeq(s, 1, Len(s) - 1)) ELSE s

Strip(s) == RStrip(LStrip(s))

\* ensure_workbook (lines 148-180): the sheets, made with their headers when
\* the file does not exist.
ensure_workbook(book) ==
    [ main |-> IF book.main = << >> THEN << MainHeader >> ELSE book.main,
      docs |-> IF book.docs = << >> THEN << DocsHeader >> ELSE book.docs ]

\* Variant: the rows already on sheet Documents are not read.
read_existing_lot_keysNone(docs) == {}

\* read_existing_lot_keys (lines 203-210).
read_existing_lot_keys(docs) ==
    { Strip(docs[r].key) : r \in { q \in 2..Len(docs) : docs[q].key # << >> } }

\* append_documents_row_wide (lines 213-234): the sheet with the new row; the
\* row number returned is the new max_row.
append_documents_row_wide(docs, lot_key, ds) ==
    Append(docs, [ key |-> lot_key,
                   docs |-> SelectSeq(ds, LAMBDA d : d[1] # "" /\ d[2] # "") ])

\* Variant: the last row of Documents is taken for the row of the key.
FindDocRowLast(docs, lot_key) ==
    LET hits == { r \in 2..Len(docs) :
                    docs[r].key # << >> /\ Strip(docs[r].key) = lot_key }
    IN IF hits = {} THEN 0 ELSE Len(docs)

\* Lines 293-298: the first row of Documents that holds lot_key, else 0.
FindDocRow(docs, lot_key) ==
    LET hits == { r \in 2..Len(docs) :
                    docs[r].key # << >> /\ Strip(docs[r].key) = lot_key }
    IN IF hits = {} THEN 0 ELSE CHOOSE r \in hits : \A q \in hits : r <= q

\* Line 283: the attachments that have a link.
DocsCount(ds) == Len(SelectSeq(ds, LAMBDA d : d[2] # ""))

\* Variant: a key is enough for a Documents row.
LinkedKeyOnly(lot_key, docs_count) == lot_key # << >>

\* The test of line 287, negated: the record gets a link to a Documents row.
Linked(lot_key, docs_count) == lot_key # << >> /\ docs_count # 0

\* The for loop of lines 267-307 over the rows of the batch.
RECURSIVE ExportLoop(_, _, _, _)
ExportLoop(rows, main, docs, existing) ==
    IF rows = << >> THEN [ main |-> main, docs |-> docs ]
    ELSE LET row == Head(rows)
             lot_key == Strip(row.key)
             docs_count == DocsCount(row.docs)
             linked == Linked(lot_key, docs_count)
             found == lot_key \in existing
             docs2 == IF linked /\ ~found
                      THEN append_documents_row_wide(docs, lot_key, row.docs)
                      ELSE docs
             doc_row == IF ~linked THEN 0
                        ELSE IF found THEN FindDocRow(docs, lot_key)
                        ELSE Len(docs2)
             out == [ key |-> row.key, address |-> row.address,
                      price |-> row.price, deposit |-> row.deposit,
                      count |-> IF linked THEN docs_count ELSE 0,
                      link |-> doc_row, src |-> row.src ]
         IN ExportLoop(Tail(rows), Append(main, out), docs2,
                       IF linked THEN existing \cup { lot_key } ELSE existing)

\* append_rows_with_documents (lines 238-318): the workbook saved by line
\* 317; an empty batch leaves the file as it is (lines 246-248).
append_rows_with_documents(rows, book) ==
    IF rows = << >> THEN book
    ELSE LET wb == ensure_workbook(book)
         IN ExportLoop(rows, wb.main, wb.docs, read_existing_lot_keys(wb.docs))

(***************************************************************************)
(* Initial values shared by the specifications.                            *)
(***************************************************************************)
NoPrev ==
    [ complete |-> FALSE, loadOk |-> FALSE, listed |-> {}, parsed |-> {},
      failed |-> {}, seenFile |-> NoFile, main |-> << >>, docs |-> << >> ]

InitCommon ==
    /\ runNo = 1
    /\ lot_links = {}
    /\ current_page = 1
    /\ fetched = << >>
    /\ all_links = << >>
    /\ loadOk = FALSE
    /\ new_links = << >>
    /\ workers = << >>
    /\ outcome = << >>
    /\ results_rows = << >>
    /\ parsed_urls = << >>
    /\ ws_main = << >>
    /\ ws_docs = << >>
    /\ rowsBefore = 0
    /\ chunks = << >>
    /\ batches = << >>

\* No run has been made: no seen file, no temporary file, an empty store.
InitNoFiles ==
    /\ seenFile = NoFile
    /\ tmpFile = NoFile
    /\ store_seen = {}
    /\ prev = NoPrev

InitNoChunk ==
    /\ items = << >>
    /\ n_chunks = 0

(***************************************************************************)
(* The main script (lines 651-714) and worker_parse (lines 624-637)        *)
(***************************************************************************)
DataRows(ws) == IF ws = << >> THEN 0 ELSE Len(ws) - 1

\* How BankrotParser(...) (lines 326-357) can end: "ok" the object is
\* returned with its browser open; "no_browser" webdriver.Chrome (line 344)
\* or the driver download raised, no browser runs; "setup_failed" a later
\* statement raised (lines 348-357, apply_cookies_to_driver's driver.get
\* among them): the browser runs, and the caller gets no object to close.
OpenOutcomes == { "ok", "no_browser", "setup_failed" }

\* The browser after the constructor ended with outcome o.
BrowserAfter(o) == IF o = "no_browser" THEN "none" ELSE "open"

\* Variant: the check of lines 663-666 is left out.
CookiesMissingIgnored == FALSE

\* The test of line 663.
CookiesMissing == cookies = "missing"

\* Lines 662-669: the script ends with SystemExit(1) when auth_cookies.json
\* does not exist; else it makes the listing session, whose constructor
\* (lines 326-357: driver download, browser start, cookies) may raise.
\* What the file holds is not looked at: the result of
\* apply_cookies_to_driver is dropped at line 357.
Start ==
    /\ pc = "start"
    /\ IF CookiesMissing
       THEN /\ pc' = "exit1"
            /\ UNCHANGED << listing_parser, net >>
       ELSE /\ net' = TRUE
            /\ \E o \in OpenOutcomes :
                 /\ listing_parser' = (IF o = "ok" THEN "open"
                                        ELSE IF o = "no_browser" THEN "failed"
                                        ELSE "leaked")
                 /\ pc' = IF o = "ok" THEN "walk" ELSE "aborted"
    /\ UNCHANGED << cookies, tmpFile, runNo, catalog, max_lots, walkVars,
                    seenVars, poolVars, bookVars, rowsBefore, prev, chunkVars,
                    batches >>

\* Variant: nothing is filtered out.
FilterNewAll(all, seen) == all

\* Line 682: the identifiers not seen yet, in the order of all_links.
FilterNew(all, seen) == SelectSeq(all, LAMBDA u : u \notin seen)

\* Lines 679-687: load the store, keep the new links, leave when there are
\* none.  A file that exists may fail to open or to parse (readable FALSE).
LoadAndFilter ==
    /\ pc = "filter"
    /\ \E readable \in (IF seenFile.kind = "missing" THEN { TRUE } ELSE BOOLEAN) :
         LET seen == load(seenFile, readable)
             nl == FilterNew(all_links, seen)
         IN /\ store_seen' = seen
            /\ loadOk' = readable
            /\ new_links' = nl
            /\ pc' = IF nl = << >> THEN "done" ELSE "fanout"
    /\ UNCHANGED << envVars, runNo, catalog, max_lots, walkVars, seenFile, poolVars,
                    bookVars, rowsBefore, prev, chunkVars, batches >>

\* A call of worker_parse that was submitted: its urls, its state, the
\* session it opened (parser, 0 before line 625 has run), the position of
\* its for loop, its two lists, and (history) the urls its session requested.
NewFuture(urls) ==
    [ urls |-> urls, st |-> "pending", parser |-> 0, browser |-> "none",
      i |-> 1, out_rows |-> << >>, out_urls |-> << >>, got |-> << >> ]

\* Variant: a future for every chunk, the empty ones too.
RECURSIVE SubmitAll(_)
SubmitAll(chs) ==
    IF chs = << >> THEN << >>
    ELSE << NewFuture(Head(chs)) >> \o SubmitAll(Tail(chs))

\* Lines 696-699: the futures submitted, in the order of the chunks.
RECURSIVE Submit(_)
Submit(chs) ==
    IF chs = << >> THEN << >>
    ELSE IF Head(chs) = << >> THEN Submit(Tail(chs))
    ELSE << NewFuture(Head(chs)) >> \o Submit(Tail(chs))

\* Lines 690-699: one future per chunk that is not empty.
FanOut ==
    /\ pc = "fanout"
    /\ chunks' = chunk_list(new_links, WORKERS)
    /\ workers' = Submit(chunks')
    /\ pc' = "join"
    /\ UNCHANGED << envVars, runNo, catalog, max_lots, walkVars, seenVars, outcome,
                    results_rows, parsed_urls, bookVars, rowsBefore, prev,
                    items, n_chunks, batches >>

Running == { w \in DOMAIN workers : workers[w].st \in { "pending", "running" } }

\* The executor's threads live while the script is inside the with block of
\* lines 695-704.
Alive == pc \in { "join", "unwind" }

\* Variant: every call of worker_parse uses one and the same session.
NewSessionShared(w) == 1

\* Line 625: each call of worker_parse makes a session of its own; the
\* session made by call w is named w.
NewSession(w) == w

\* Line 625: the worker opens its own browser; the constructor may raise,
\* and the exception is then the future's result.
WorkerOpen(w) ==
    /\ Alive
    /\ workers[w].st = "pending"
    /\ \E o \in OpenOutcomes :
         workers' = [workers EXCEPT ![w].st = IF o = "ok" THEN "running"
                                              ELSE "failed",
                                    ![w].parser = IF o = "ok"
                                                  THEN NewSession(w) ELSE 0,
                                    ![w].browser = BrowserAfter(o)]
    /\ net' = TRUE
    /\ UNCHANGED << cookies, listing_parser, tmpFile, pc, runNo, catalog, max_lots, walkVars, seenVars, outcome,
                    results_rows, parsed_urls, bookVars, rowsBefore, prev,
                    chunkVars, batches >>

\* Lines 629-634: one turn of the for loop over the worker's urls; a row
\* that is not None is kept with its identifier.  An exception that leaves
\* parse_lot_page would leave worker_parse too.
WorkerItem(w) ==
    /\ Alive
    /\ workers[w].st = "running"
    /\ workers[w].i <= Len(workers[w].urls)
    /\ \E fetch \in { "ok", "error" } :
         LET me == workers[w]
             url == me.urls[me.i]
             res == parse_lot_page(url, fetch)
         IN /\ outcome' = (url :> (IF fetch = "error" THEN "fail"
                                   ELSE IF res.kind = "row" THEN "ok"
                                   ELSE "empty")) @@ outcome
            /\ workers' =
                 IF res.kind = "raise"
                 THEN [workers EXCEPT ![w].st = "failed",
                                      ![w].browser = "closed",
                                      ![w].got = Append(@, url)]
                 ELSE IF res.kind = "row"
                 THEN [workers EXCEPT ![w].i = @ + 1,
                                      ![w].got = Append(@, url),
                                      ![w].out_rows = Append(@, res.row),
                                      ![w].out_urls = Append(@, res.url)]
                 ELSE [workers EXCEPT ![w].i = @ + 1,
                                      ![w].got = Append(@, url)]
    /\ net' = TRUE
    /\ UNCHANGED << cookies, listing_parser, tmpFile, pc, runNo, catalog, max_lots, walkVars, seenVars,
                    results_rows, parsed_urls, bookVars, rowsBefore, prev,
                    chunkVars, batches >>

\* Lines 635-637: the loop is over; the finally clause closes the session
\* (close, lines 359-363) and the two lists are returned.
WorkerReturn(w) ==
    /\ Alive
    /\ workers[w].st = "running"
    /\ workers[w].i > Len(workers[w].urls)
    /\ workers' = [workers EXCEPT ![w].st = "done", ![w].browser = "closed"]
    /\ UNCHANGED << envVars, pc, runNo, catalog, max_lots, walkVars, seenVars, outcome,
                    results_rows, parsed_urls, bookVars, rowsBefore, prev,
                    chunkVars, batches >>

\* Variant: the with block is left after the first future that returned.
AllJoinedAny(w) == TRUE

\* The for loop of line 701 is over with future w: every other future has
\* been handed over.
AllJoined(w) == \A v \in DOMAIN workers : v = w \/ workers[v].st = "merged"

\* Variant: the store is saved before the workbook is written.
AfterSaveFirst(p) ==
    CASE p = "join" -> "save" [] p = "save" -> "export" [] OTHER -> "done"

\* The order of the statements after the with block (lines 706-713): the
\* workbook is written, then the store is saved, then the script ends.
After(p) ==
    CASE p = "join" -> "export" [] p = "export" -> "save" [] OTHER -> "done"

\* Lines 701-704: as_completed hands over a future that returned; its lists
\* are added to the run's.  After the last one the with block is left.
Merge(w) ==
    /\ pc = "join"
    /\ workers[w].st = "done"
    /\ results_rows' = results_rows \o workers[w].out_rows
    /\ parsed_urls' = parsed_urls \o workers[w].out_urls
    /\ workers' = [workers EXCEPT ![w].st = "merged"]
    /\ pc' = IF AllJoined(w) THEN After("join") ELSE "join"
    /\ UNCHANGED << envVars, runNo, catalog, max_lots, walkVars, seenVars, outcome,
                    bookVars, rowsBefore, prev, chunkVars, batches >>

\* Line 702: f.result() raises what the worker raised; the for loop is left
\* and the with block waits for the workers still running (line 695).
JoinRaise(w) ==
    /\ pc = "join"
    /\ workers[w].st = "failed"
    /\ pc' = "unwind"
    /\ UNCHANGED << envVars, runNo, catalog, max_lots, walkVars, seenVars, poolVars,
                    bookVars, rowsBefore, prev, chunkVars, batches >>

\* The executor has shut down: the exception ends the script.
Abort ==
    /\ pc = "unwind"
    /\ Running = {}
    /\ pc' = "aborted"
    /\ UNCHANGED << envVars, runNo, catalog, max_lots, walkVars, seenVars, poolVars,
                    bookVars, rowsBefore, prev, chunkVars, batches >>

\* Line 709: write the workbook.
Export ==
    /\ pc = "export"
    /\ LET book == append_rows_with_documents(results_rows,
                        [ main |-> ws_main, docs |-> ws_docs ])
       IN /\ ws_main' = book.main
          /\ ws_docs' = book.docs
    /\ batches' = Append(batches, results_rows)
    /\ pc' = After("export")
    /\ UNCHANGED << envVars, runNo, catalog, max_lots, walkVars, seenVars, poolVars,
                    rowsBefore, prev, chunkVars >>

\* Variant: every identifier that was tried is handed to add_many.
ToMarkAttempted(parsed, new) == new

\* Line 712: the identifiers handed to add_many.
ToMark(parsed, new) == parsed

\* Lines 712-713: add the parsed identifiers and save the store.
SaveSeen ==
    /\ pc = "save"
    /\ store_seen' = add_many(store_seen, ToMark(parsed_urls, new_links))
    /\ seenFile' = save(store_seen')
    /\ tmpFile' = NoFile
    /\ pc' = After("save")
    /\ UNCHANGED << cookies, listing_parser, net, runNo, catalog, max_lots, walkVars, loadOk, new_links,
                    poolVars, bookVars, rowsBefore, prev, chunkVars, batches >>

Ended == { "done", "aborted", "exit1", "crashed" }

\* The process is killed (power loss, kill -9) between two steps of the
\* script: nothing more is executed, the files stay as they are.
Crash ==
    /\ pc \notin Ended
    /\ pc' = "crashed"
    /\ UNCHANGED << envVars, runNo, catalog, max_lots, walkVars, seenVars,
                    poolVars, bookVars, rowsBefore, prev, chunkVars, batches >>

\* The script is started again: a new process, the files as they are.
NextRun ==
    /\ pc \in Ended
    /\ runNo < MaxRuns
    /\ runNo' = runNo + 1
    /\ pc' = "start"
    /\ cookies' \in { "missing", "present" }
    /\ listing_parser' = "none"
    /\ net' = FALSE
    /\ lot_links' = {}
    /\ current_page' = 1
    /\ fetched' = << >>
    /\ all_links' = << >>
    /\ store_seen' = {}
    /\ loadOk' = FALSE
    /\ new_links' = << >>
    /\ workers' = << >>
    /\ outcome' = << >>
    /\ results_rows' = << >>
    /\ parsed_urls' = << >>
    /\ chunks' = << >>
    /\ batches' = << >>
    /\ rowsBefore' = DataRows(ws_main)
    /\ prev' = [ complete |-> pc = "done",
                 loadOk |-> loadOk,
                 listed |-> Range(all_links),
                 parsed |-> Range(parsed_urls),
                 failed |-> { u \in DOMAIN outcome : outcome[u] # "ok" },
                 seenFile |-> seenFile, main |-> ws_main, docs |-> ws_docs ]
    /\ UNCHANGED << tmpFile, catalog, max_lots, seenFile, bookVars, items,
                    n_chunks >>

(***************************************************************************)
(* Spec: one run of the whole script against the catalog "main".           *)
(***************************************************************************)
InitStart ==
    /\ pc = "start"
    /\ cookies \in { "missing", "present" }
    /\ listing_parser = "none"
    /\ net = FALSE

Init ==
    /\ InitCommon
    /\ InitNoFiles
    /\ InitNoChunk
    /\ InitStart
    /\ catalog = "main"
    /\ max_lots = MAX_LOTS

Next ==
    \/ Start
    \/ ListingPage
    \/ LoadAndFilter
    \/ FanOut
    \/ \E w \in DOMAIN workers : WorkerOpen(w)
    \/ \E w \in DOMAIN workers : WorkerItem(w)
    \/ \E w \in DOMAIN workers : WorkerReturn(w)
    \/ \E w \in DOMAIN workers : Merge(w)
    \/ \E w \in DOMAIN workers : JoinRaise(w)
    \/ Abort
    \/ Export
    \/ SaveSeen

Spec == Init /\ [][Next]_vars

(***************************************************************************)
(* SpecRuns: the script run again and again, each run a new process that   *)
(* finds the two files as the run before left them, against the catalog    *)
(* "small", which does not change.  A run may be killed at any step.       *)
(***************************************************************************)
InitRuns ==
    /\ InitCommon
    /\ InitNoFiles
    /\ InitNoChunk
    /\ InitStart
    /\ catalog = "small"
    /\ max_lots = MAX_LOTS

NextRuns == Next \/ Crash \/ NextRun

SpecRuns == InitRuns /\ [][NextRuns]_vars

(***************************************************************************)
(* SpecWalk: get_listing_urls on its own, for every catalog and target.    *)
(***************************************************************************)
InitWalk ==
    /\ InitCommon
    /\ InitNoFiles
    /\ InitNoChunk
    /\ pc = "walk"
    /\ cookies = "present"
    /\ listing_parser = "open"
    /\ net = TRUE
    /\ catalog \in Catalogs
    /\ max_lots \in 1..MaxTarget

NextWalk == ListingPage

SpecWalk == InitWalk /\ [][NextWalk]_vars

\* The walker is the only thread of the process while it runs, and each of
\* its waits has a time limit (lines 352-353): it keeps taking steps.
SpecWalkFair == SpecWalk /\ WF_vars(NextWalk)

(***************************************************************************)
(* SpecChunk: chunk_list on its own, for every short list and every n.     *)
(***************************************************************************)
Idents == { Abs(1), Abs(2), Abs(3) }

SeqsUpTo(S, n) == UNION { [1..k -> S] : k \in 0..n }

InitChunk ==
    /\ InitCommon
    /\ InitNoFiles
    /\ pc = "chunk"
    /\ cookies = "present"
    /\ listing_parser = "none"
    /\ net = FALSE
    /\ catalog = "empty"
    /\ max_lots = MAX_LOTS
    /\ items \in SeqsUpTo(Idents, MaxItems)
    /\ n_chunks \in -1..MaxChunks

ChunkCall ==
    /\ pc = "chunk"
    /\ chunks' = chunk_list(items, n_chunks)
    /\ pc' = "chunked"
    /\ UNCHANGED << envVars, runNo, catalog, max_lots, walkVars, seenVars, poolVars,
                    bookVars, rowsBefore, prev, items, n_chunks, batches >>

NextChunk == ChunkCall

SpecChunk == InitChunk /\ [][NextChunk]_vars

(***************************************************************************)
(* SpecLoad: SeenLotsStore.load on its own, for every file of the model.   *)
(***************************************************************************)
MaxElems == 2       \* longest array in a seen file handed to load on its own

Elems == Idents \cup { Nested }

Lists == { JsonList(q) : q \in SeqsUpTo(Elems, MaxElems) }

\* The files load is tried on: none, arrays, objects with and without a
\* "seen" array, other JSON values, cut-off and foreign text.
Files ==
    { NoFile, JsonScalar, Garbage, CutList(<< Abs(1) >>) }
    \cup Lists
    \cup { JsonDict([ seen |-> l ]) : l \in Lists }
    \cup { JsonDict([ seen |-> JsonScalar ]),
           JsonDict([ other |-> JsonList(<< Abs(1) >>) ]) }

InitLoad ==
    /\ InitCommon
    /\ InitNoChunk
    /\ pc = "load"
    /\ cookies = "present"
    /\ listing_parser = "none"
    /\ net = FALSE
    /\ catalog = "empty"
    /\ max_lots = MAX_LOTS
    /\ seenFile \in Files
    /\ tmpFile = NoFile
    /\ store_seen = {}
    /\ prev = NoPrev

LoadCall ==
    /\ pc = "load"
    /\ \E readable \in (IF seenFile.kind = "missing" THEN { TRUE } ELSE BOOLEAN) :
         /\ store_seen' = load(seenFile, readable)
         /\ loadOk' = readable
    /\ pc' = "loaded"
    /\ UNCHANGED << envVars, runNo, catalog, max_lots, walkVars, seenFile,
                    new_links, poolVars, bookVars, rowsBefore, prev, chunkVars,
                    batches >>

NextLoad == LoadCall

SpecLoad == InitLoad /\ [][NextLoad]_vars

(***************************************************************************)
(* SpecSave: SeenLotsStore.save on its own, statement by statement, with a *)
(* process that may be killed between any two writes.                      *)
(***************************************************************************)
\* Variant: the payload is written straight to the file itself.
SavePathFinal == "final"

\* Line 75: the file that lines 77-78 write is self.path + ".tmp".
SavePath == "tmp"

\* The file lines 77-78 write gets a new content; the other file stays.
Written(content) ==
    IF SavePath = "tmp"
    THEN tmpFile' = content /\ UNCHANGED seenFile
    ELSE seenFile' = content /\ UNCHANGED tmpFile

\* What lines 77-78 have written so far.
WrittenSoFar == IF SavePath = "tmp" THEN tmpFile ELSE seenFile

SaveFrame ==
    UNCHANGED << cookies, listing_parser, net, runNo, catalog, max_lots,
                 walkVars, store_seen, loadOk, new_links, poolVars, bookVars,
                 rowsBefore, prev, chunkVars, batches >>

\* Line 77: open(tmp, "w") makes the file, or empties the one left behind.
SaveOpen ==
    /\ pc = "save77"
    /\ Written(CutList(<< >>))
    /\ pc' = "save78"
    /\ SaveFrame

\* Line 78: json.dump writes the payload piece by piece.
SaveWrite ==
    /\ pc = "save78"
    /\ Len(WrittenSoFar.elems) < Len(Sorted(store_seen))
    /\ Written(CutList(SubSeq(Sorted(store_seen), 1, Len(WrittenSoFar.elems) + 1)))
    /\ UNCHANGED pc
    /\ SaveFrame

\* End of the with block of line 77: the closing bracket is out, the file is
\* closed.
SaveClose ==
    /\ pc = "save78"
    /\ Len(WrittenSoFar.elems) = Len(Sorted(store_seen))
    /\ Written(JsonList(Sorted(store_seen)))
    /\ pc' = "save79"
    /\ SaveFrame

\* Line 79: os.replace(tmp, self.path), one rename.
SaveReplace ==
    /\ pc = "save79"
    /\ IF SavePath = "tmp"
       THEN seenFile' = tmpFile /\ tmpFile' = NoFile
       ELSE UNCHANGED << seenFile, tmpFile >>
    /\ pc' = "saved"
    /\ SaveFrame

\* The process is killed inside save.
SaveCrash ==
    /\ pc \in { "save77", "save78", "save79" }
    /\ pc' = "crashed"
    /\ UNCHANGED << seenFile, tmpFile >>
    /\ SaveFrame

\* The seen file before the call: none, arrays, the legacy form, foreign
\* text; the temporary file: none, or what a killed save left behind.
InitSave ==
    /\ InitCommon
    /\ InitNoChunk
    /\ pc = "save77"
    /\ cookies = "present"
    /\ listing_parser = "none"
    /\ net = FALSE
    /\ catalog = "empty"
    /\ max_lots = MAX_LOTS
    /\ seenFile \in { NoFile, Garbage, JsonList(<< Abs(1) >>),
                      JsonList(<< Abs(1), Abs(2) >>),
                      JsonDict([ seen |-> JsonList(<< Abs(3) >>) ]) }
    /\ tmpFile \in { NoFile, CutList(<< Abs(3) >>) }
    /\ store_seen \in SUBSET Idents
    /\ prev = [ NoPrev EXCEPT !.seenFile = seenFile ]

NextSave == SaveOpen \/ SaveWrite \/ SaveClose \/ SaveReplace \/ SaveCrash

SpecSave == InitSave /\ [][NextSave]_vars

(***************************************************************************)
(* SpecExport: append_rows_with_documents on its own, called again and     *)
(* again on the same file with every batch of records.                     *)
(***************************************************************************)
\* The records of the lots the site holds, and one record without a key.
Records ==
    { BuildRow(Abs(n), DetailPage(Abs(n))) : n \in { 1, 2, 4, 5 } }
    \cup { [ BuildRow(Abs(6), DetailPage(Abs(1))) EXCEPT !.key = << >> ] }

RECURSIVE Flat(_)
Flat(bs) == IF bs = << >> THEN << >> ELSE Head(bs) \o Flat(Tail(bs))

\* A batch holds a record of an identifier once, as new_links does.
Batches(n) ==
    { b \in SeqsUpTo(Records, n) :
        \A i, j \in 1..Len(b) : b[i].src = b[j].src => i = j }

InitExport ==
    /\ InitCommon
    /\ InitNoFiles
    /\ InitNoChunk
    /\ pc = "sink"
    /\ cookies = "present"
    /\ listing_parser = "none"
    /\ net = FALSE
    /\ catalog = "empty"
    /\ max_lots = MAX_LOTS

ExportCall ==
    /\ pc = "sink"
    /\ Len(batches) < MaxRows
    /\ \E batch \in Batches(MaxRows - Len(Flat(batches))) :
         LET book == append_rows_with_documents(batch,
                         [ main |-> ws_main, docs |-> ws_docs ])
         IN /\ ws_main' = book.main
            /\ ws_docs' = book.docs
            /\ batches' = Append(batches, batch)
    /\ UNCHANGED << envVars, pc, runNo, catalog, max_lots, walkVars, seenVars, poolVars,
                    rowsBefore, prev, chunkVars >>

NextExport == ExportCall

SpecExport == InitExport /\ [][NextExport]_vars

(***************************************************************************)
(* C9: the stopping rules of the walker.                                   *)
(***************************************************************************)
Last(s) == s[Len(s)]

\* The identifiers of the anchors of every listing page whose markup the
\* walker has read so far.
IdsRead ==
    UNION { { Normalize(h) : h \in { x \in Range(PageSource(catalog, fetched[j].shown)) :
                                        ~Skipped(x) } } :
            j \in { k \in 1..Len(fetched) : fetched[k].shown > 0 /\ fetched[k].anchors > 0 } }

\* One of the three stopping rules holds of a requested page: (1) the count
\* has reached max_lots, (2) no anchor (time-out or none on the page), (3) no
\* new identifier.
StopsAt(e) == e.total >= max_lots \/ e.anchors = 0 \/ e.total = e.before

C9_StopRules ==
    /\ \A j \in 1..Len(fetched) : fetched[j].page = j
    /\ \A j \in 1..(Len(fetched) - 1) : ~StopsAt(fetched[j])
    /\ pc = "walk" => current_page = Len(fetched) + 1
    /\ pc = "filter" => Len(fetched) >= 1 /\ StopsAt(Last(fetched))

\* C9 as stated: pages 1, 2, 3, ... are requested in order, the walker stops
\* at the first page where one of the three rules holds, and it returns
\* exactly the distinct identifiers of the pages read so far.
C9_Original ==
    /\ C9_StopRules
    /\ pc = "filter" => Range(all_links) = IdsRead

\* C9 (amended): pages 1, 2, 3, ... are requested in order, the walker stops
\* at the first page where one of the three rules holds, and it returns the
\* distinct identifiers of the pages read so far cut off at max_lots: each
\* identifier once, never more than max_lots of them, and all of them when
\* fewer than max_lots were returned.
C9_Amended ==
    /\ C9_StopRules
    /\ pc = "filter" =>
         /\ Range(all_links) \subseteq IdsRead
         /\ Len(all_links) = Cardinality(Range(all_links))
         /\ Len(all_links) <= max_lots
         /\ Len(all_links) < max_lots => Range(all_links) = IdsRead

\* The scenario of the claim, scaled: two pages of two links with one shared,
\* a third page with nothing new, a target out of reach: the walker stops
\* after page 3 with three identifiers.
C9_Witness ==
    /\ pc = "filter"
    /\ catalog = "overlap"
    /\ max_lots > 3
    /\ Len(fetched) = 3
    /\ \A j \in 1..3 : fetched[j].shown = j
    /\ Range(all_links) = { Abs(1), Abs(2), Abs(3) }

(***************************************************************************)
(* C4: the partition chunk_list makes.                                     *)
(***************************************************************************)
\* The positions (from 1) of the list that belong to chunk k of n: those
\* whose index from 0 is k - 1 modulo n.
PositionsOf(k, n, len) == { i \in 1..len : (i - 1) % n = k - 1 }

\* C4: chunk_list(items, n) returns max(1, n) chunks; chunk k holds, in the
\* order of the list, exactly the items at the positions i with
\* i mod n = k (positions and chunks counted from 0), so every position is in
\* one chunk once; two chunks differ in size by at most 1.
C4_Partition ==
    pc = "chunked" =>
        LET n == IF n_chunks < 1 THEN 1 ELSE n_chunks IN
        /\ Len(chunks) = n
        /\ \A k \in 1..n :
             /\ Len(chunks[k]) = Cardinality(PositionsOf(k, n, Len(items)))
             /\ \A j \in 1..Len(chunks[k]) : chunks[k][j] = items[(j - 1) * n + k]
        /\ \A k1, k2 \in 1..n : Len(chunks[k1]) - Len(chunks[k2]) <= 1

C4_Witness ==
    /\ pc = "chunked"
    /\ n_chunks = 2
    /\ items = << Abs(1), Abs(2), Abs(3) >>
    /\ chunks = << << Abs(1), Abs(3) >>, << Abs(2) >> >>

(***************************************************************************)
(* C5, C6, C10: the two sheets after any number of exports.                *)
(***************************************************************************)
\* Every record handed to append_rows_with_documents so far, in order.
Exported == Flat(batches)

\* The record takes the branch that links it to a Documents row (line 287).
HasDocs(rec) == Strip(rec.key) # << >> /\ DocsCount(rec.docs) >= 1

\* C5: sheet Documents holds at most one row per key, whatever batches were
\* exported and however often.
C5_OneDocsRowPerKey ==
    \A r1, r2 \in 2..Len(ws_docs) :
        ws_docs[r1].key = ws_docs[r2].key => r1 = r2

\* Two calls; a key shared inside a batch and met again in the second call.
C5_Witness ==
    /\ Len(batches) = 2
    /\ \E i, j \in 1..Len(batches[1]) :
         /\ i # j
         /\ HasDocs(batches[1][i]) /\ HasDocs(batches[1][j])
         /\ batches[1][i].key = batches[1][j].key
         /\ \E k \in 1..Len(batches[2]) :
              HasDocs(batches[2][k]) /\ batches[2][k].key = batches[1][i].key
    /\ Len(ws_docs) = 2

\* C6: the i-th exported record has row i + 1 of sheet ALL and no other; when
\* it has a key and an attachment, that row's link is the number of the one
\* Documents row with the record's key, and its label counts the record's
\* attachments.
C6_CrossLink ==
    /\ Len(ws_main) = IF Exported = << >> THEN 0 ELSE Len(Exported) + 1
    /\ \A i \in 1..Len(Exported) :
         LET rec == Exported[i]
             row == ws_main[i + 1]
         IN /\ row.key = rec.key /\ row.src = rec.src
            /\ HasDocs(rec) =>
                 /\ row.link \in 2..Len(ws_docs)
                 /\ ws_docs[row.link].key = rec.key
                 /\ row.count = DocsCount(rec.docs)
                 /\ \A r \in 2..Len(ws_docs) :
                      ws_docs[r].key = rec.key => r = row.link

\* Two records of one batch share a key, and a record of a later call has
\* it too: one Documents row, three rows of sheet ALL that link to it, the
\* row not being the last of Documents.
C6_Witness ==
    /\ Len(batches) = 2
    /\ Len(batches[1]) = 2 /\ Len(batches[2]) = 1
    /\ \A i \in 1..3 : HasDocs(Exported[i]) /\ Exported[i].key = Exported[1].key
    /\ \A i \in 2..4 : ws_main[i].link = ws_main[2].link
    /\ Len(ws_docs) = 2

\* C10 as stated: sheet ALL never holds two rows for one entity (one
\* identifier).
C10_NoSecondRow ==
    \A i, j \in 2..Len(ws_main) : ws_main[i].src = ws_main[j].src => i = j

(***************************************************************************)
(* C1, C2, C3: the seen store over consecutive runs (SpecRuns).            *)
(***************************************************************************)
\* The rows of sheet ALL appended since the current run started.
AppendedRows == { i \in 2..Len(ws_main) : i - 1 > rowsBefore }

\* The current run is over, it follows a run that went to its end, and it
\* loaded the seen file that run left.
SecondOfTwo ==
    /\ runNo >= 2
    /\ prev.complete
    /\ loadOk
    /\ pc = "done"

\* C1 as stated: the second of two consecutive complete runs against the
\* unchanged catalog (both walks listed the same identifiers) appends no row
\* to sheet ALL.
C1_Original ==
    SecondOfTwo /\ prev.listed = Range(all_links) => AppendedRows = {}

\* C1 (amended): the second of two consecutive complete runs appends no row
\* for an identifier the first run extracted; every row it appends is for
\* an identifier whose extraction failed or was judged empty in the first
\* run, or which the first run's walk did not list.
C1_Amended ==
    SecondOfTwo =>
        \A i \in AppendedRows :
            /\ ws_main[i].src \notin prev.parsed
            /\ ws_main[i].src \in prev.failed \/ ws_main[i].src \notin prev.listed

\* The first run extracted lot 1 and found lot 3 empty; the second run lists
\* both again and appends nothing.
C1_Witness ==
    /\ SecondOfTwo
    /\ prev.parsed = { Abs(1) }
    /\ prev.failed = { Abs(3) }
    /\ Range(all_links) = { Abs(1), Abs(3) }
    /\ Range(new_links) = { Abs(3) }
    /\ AppendedRows = {}

\* The identifiers whose fetch or parse failed, or whose record was judged
\* empty, in the current run.
NotExtracted == { u \in DOMAIN outcome : outcome[u] # "ok" }

C3_Monotone == [][Persisted(seenFile) \subseteq Persisted(seenFile')]_vars

(***************************************************************************)
(* C7, C8: one run, three workers (Spec).                                  *)
(***************************************************************************)
BothNotFound(row) == row.price = NOT_FOUND /\ row.address = NOT_FOUND

\* C7: no record with a "not found" price and a "not found" address is in
\* sheet ALL, in the run's results or in a worker's results.
C7_EmptyGate ==
    /\ \A i \in 2..Len(ws_main) : ~BothNotFound(ws_main[i])
    /\ \A i \in 1..Len(results_rows) : ~BothNotFound(results_rows[i])
    /\ \A w \in DOMAIN workers :
         \A i \in 1..Len(workers[w].out_rows) : ~BothNotFound(workers[w].out_rows[i])

\* Lot 3, whose page has neither price nor address, was parsed; the three
\* other lots were exported.
C7_Witness ==
    /\ pc = "done"
    /\ Abs(3) \in DOMAIN outcome /\ outcome[Abs(3)] = "empty"
    /\ BothNotFound(BuildRow(Abs(3), DetailPage(Abs(3))))
    /\ Len(ws_main) = 4

Extracted == { u \in DOMAIN outcome : outcome[u] = "ok" }

\* C8: a failed item stops nothing.  Each worker has tried exactly the items
\* before its position, in shard order; a worker stops only after its last
\* item (or before its first, when its browser did not start); what it hands
\* back are the items that succeeded, in shard order; and once the results
\* are joined every new link was tried and the merged records are those of
\* the items that succeeded.
C8_FailureIsolation ==
    /\ \A w \in DOMAIN workers :
         LET me == workers[w] IN
         /\ { u \in Range(me.urls) : u \in DOMAIN outcome }
               = { me.urls[k] : k \in 1..(me.i - 1) }
         /\ me.st \in { "done", "merged" } => me.i = Len(me.urls) + 1
         /\ me.st = "failed" => me.i = 1
         /\ me.out_urls = SelectSeq(SubSeq(me.urls, 1, me.i - 1),
                                     LAMBDA u : outcome[u] = "ok")
         /\ Len(me.out_rows) = Len(me.out_urls)
         /\ \A k \in 1..Len(me.out_rows) : me.out_rows[k].src = me.out_urls[k]
    /\ pc \in { "unwind", "aborted" } /\ workers # << >> =>
         \E w \in DOMAIN workers : workers[w].st = "failed"
    /\ pc = "aborted" =>
         \A w \in DOMAIN workers :
             workers[w].st # "failed" => workers[w].i = Len(workers[w].urls) + 1
    /\ pc \in { "export", "save" } \/ (pc = "done" /\ new_links # << >>) =>
         /\ DOMAIN outcome = Range(new_links)
         /\ Range(parsed_urls) = Extracted
         /\ Len(parsed_urls) = Cardinality(Extracted)
         /\ Len(results_rows) = Len(parsed_urls)
         /\ \A k \in 1..Len(results_rows) : results_rows[k].src = parsed_urls[k]

\* The first item of a shard of two failed, the second was extracted, the
\* other shards were processed, and the join merged what succeeded.
C8_Witness ==
    /\ pc = "export"
    /\ \E w \in DOMAIN workers :
         /\ Len(workers[w].urls) = 2
         /\ outcome[workers[w].urls[1]] = "fail"
         /\ outcome[workers[w].urls[2]] = "ok"
         /\ workers[w].urls[2] \in Range(parsed_urls)
         /\ \E v \in DOMAIN workers :
              v # w /\ outcome[workers[v].urls[1]] = "ok"
                    /\ workers[v].urls[1] \in Range(parsed_urls)

(***************************************************************************)
(* C11: what load makes of a file (SpecLoad).                              *)
(***************************************************************************)
\* The file holds a "seen" array the legacy way.
LegacyForm(file) ==
    /\ file.kind = "dict"
    /\ "seen" \in DOMAIN file.fields
    /\ file.fields["seen"].kind = "list"

\* The array of identifiers a file holds, << >> when it holds none.
ArrayOf(file) ==
    IF file.kind = "list" THEN file.elems
    ELSE IF LegacyForm(file) THEN file.fields["seen"].elems
    ELSE << >>

HoldsArray(file) == file.kind = "list" \/ LegacyForm(file)

\* load has returned, and it returned a set (no error left it).
Loaded == pc = "loaded" /\ << "raise" >> \notin store_seen

\* C11 as stated: load never fails; a file that is missing, unreadable,
\* unparseable, or neither an array nor an object with a "seen" array gives
\* the empty set; an array, or the "seen" array of an object, gives exactly
\* its elements.
C11_Original ==
    pc = "loaded" =>
        /\ Loaded
        /\ ~loadOk \/ ~HoldsArray(seenFile) => store_seen = {}
        /\ loadOk /\ HoldsArray(seenFile) => store_seen = Range(ArrayOf(seenFile))

\* C11 (amended): load never fails; a file that is missing, unreadable,
\* unparseable, or neither an array nor an object with a "seen" array gives
\* the empty set, and so does an array (or "seen" array) with an element
\* that is itself an array or an object; an array, or the "seen" array of
\* an object, whose elements are all scalars gives exactly its elements.
C11_Amended ==
    pc = "loaded" =>
        /\ Loaded
        /\ ~loadOk \/ ~HoldsArray(seenFile) => store_seen = {}
        /\ loadOk /\ HoldsArray(seenFile) =>
             IF \A i \in 1..Len(ArrayOf(seenFile)) : Hashable(ArrayOf(seenFile)[i])
             THEN store_seen = Range(ArrayOf(seenFile))
             ELSE store_seen = {}

\* The legacy object {"seen": [lot 1]} was loaded and gave exactly lot 1.
C11_Witness ==
    /\ pc = "loaded"
    /\ loadOk
    /\ seenFile = JsonDict([ seen |-> JsonList(<< Abs(1) >>) ])
    /\ store_seen = { Abs(1) }

(***************************************************************************)
(* C12: a save that is killed (SpecSave).                                  *)
(***************************************************************************)
\* C12: at every point of save, killed or not, the seen file holds the
\* complete content it had before the call or the complete new content;
\* until the rename it is the old one, after it the new one, which is what
\* the whole call writes; the text being written is in the temporary file.
C12_CrashSafeSave ==
    /\ seenFile \in { prev.seenFile, save(store_seen) }
    /\ seenFile.kind # "cut"
    /\ pc \in { "save77", "save78", "save79" } => seenFile = prev.seenFile
    /\ pc = "saved" => seenFile = save(store_seen) /\ tmpFile = NoFile

\* save was killed after it had written one of two identifiers: the
\* temporary file is cut off, the seen file is the array it was before.
C12_Witness ==
    /\ pc = "crashed"
    /\ Cardinality(store_seen) = 2
    /\ tmpFile = CutList(SubSeq(Sorted(store_seen), 1, 1))
    /\ seenFile = JsonList(<< Abs(1) >>)
    /\ seenFile # save(store_seen)

(***************************************************************************)
(* C13: a run without auth_cookies.json (SpecRuns).                        *)
(***************************************************************************)
\* The run has gone past its first statement.
Started == pc # "start"

\* C13: a run that finds no auth_cookies.json ends at once with exit code 1
\* (unless it is killed before): it opens no session (neither the listing session nor a worker's), makes
\* no network request, fetches no page, and leaves the workbook, the seen
\* file and the temporary file as the run before left them.
C13_FatalEarly ==
    cookies = "missing" /\ Started =>
        /\ pc \in { "exit1", "crashed" }
        /\ listing_parser = "none"
        /\ workers = << >>
        /\ ~net
        /\ fetched = << >> /\ outcome = << >>
        /\ store_seen = {} /\ ~loadOk
        /\ seenFile = prev.seenFile
        /\ ws_main = prev.main /\ ws_docs = prev.docs
        /\ batches = << >>

\* A first run extracted a lot and saved both files; the second run finds
\* no cookie file and ends.
C13_Witness ==
    /\ runNo = 2
    /\ cookies = "missing"
    /\ pc = "exit1"
    /\ prev.complete
    /\ Len(ws_main) = 2
    /\ seenFile = JsonList(<< Abs(1) >>)

(***************************************************************************)
(* C14: identifiers are normalized (SpecRuns).                             *)
(***************************************************************************)
NoFragment(u) == \A i \in 1..Len(u) : u[i] # "#"

\* The entry a link addresses: the lot number behind "/lot/".
RECURSIVE EntryOf(_)
EntryOf(h) ==
    IF Len(h) < 2 THEN ""
    ELSE IF Head(h) = "/lot/" THEN h[2]
    ELSE EntryOf(Tail(h))

\* The anchors of the listing pages read so far that the walker does not
\* pass over.
AnchorsRead ==
    UNION { { h \in Range(PageSource(catalog, fetched[j].shown)) : ~Skipped(h) } :
            j \in { k \in 1..Len(fetched) : fetched[k].shown > 0 } }

\* Every identifier the run holds anywhere.
IdsHeld ==
    lot_links \cup Range(all_links) \cup Range(new_links) \cup store_seen
    \cup Persisted(seenFile) \cup Range(parsed_urls) \cup DOMAIN outcome

\* C14: two links read from the listing that differ only by a fragment give
\* one identifier; the walker holds one identifier per entry; and every
\* identifier the walker returns, the filter compares, the workers are given
\* and the store holds or saves is absolute and has no fragment.
C14_Normalized ==
    /\ \A h1, h2 \in AnchorsRead :
         SplitHash0(h1) = SplitHash0(h2) => Normalize(h1) = Normalize(h2)
    /\ \A u, v \in lot_links : EntryOf(u) = EntryOf(v) => u = v
    /\ \A u \in IdsHeld : NoFragment(u) /\ StartsWith(u, "http")

\* Page 1 links lot 1 bare, page 2 links it with a fragment, relative and
\* absolute: the walker returned one identifier for it, and the run saved it.
C14_Witness ==
    /\ pc = "done"
    /\ { Rel(1), Frag(Rel(1)), Frag(Abs(1)) } \subseteq AnchorsRead
    /\ Range(all_links) = { Abs(1), Abs(3) }
    /\ Persisted(seenFile) = { Abs(1) }

(***************************************************************************)
(* C15: seen means recorded (SpecRuns, runs that may be killed).           *)
(***************************************************************************)
\* The identifiers that have a row in sheet ALL of the saved workbook.
Recorded == { ws_main[i].src : i \in 2..Len(ws_main) }

\* C15: whatever a run does and wherever it is killed, every identifier in
\* the seen file has a row in sheet ALL; a run changes the seen file at most
\* once, as its last step, after every worker was joined and the workbook
\* was written; until then the store in memory is what load returned and
\* holds none of the run's new links.
C15_SeenMeansRecorded ==
    /\ Persisted(seenFile) \subseteq Recorded
    /\ seenFile # prev.seenFile =>
         /\ pc = "done"
         /\ Len(batches) = 1
         /\ \A w \in DOMAIN workers : workers[w].st = "merged"
         /\ Range(parsed_urls) \subseteq Recorded
    /\ pc # "done" =>
         /\ store_seen \subseteq Persisted(seenFile)
         /\ store_seen \cap Range(new_links) = {}

\* The run was killed after the workbook was written and before the store
\* was saved: lot 1 is recorded and not seen.
C15_Witness ==
    /\ pc = "crashed"
    /\ Len(batches) = 1
    /\ Recorded = { Abs(1) }
    /\ Persisted(seenFile) = {}

(***************************************************************************)
(* C16: nothing shared is touched during the fan-out (Spec).               *)
(***************************************************************************)
\* Where the main thread stands while workers run.
C16_Phases ==
    /\ pc \in { "start", "walk", "filter", "fanout" } => workers = << >>
    /\ Running # {} => pc \in { "join", "unwind" }
    /\ Running # {} =>
         /\ listing_parser = "closed"
         /\ batches = << >>
         /\ store_seen \cap Range(new_links) = {}
    /\ pc \in { "export", "save" } =>
         \A w \in DOMAIN workers : workers[w].st = "merged"

\* A step taken while a worker is pending or running leaves the store, the
\* seen file and the workbook alone.
C16_Steps ==
    Running # {} =>
        UNCHANGED << store_seen, seenFile, tmpFile, ws_main, ws_docs,
                     all_links, new_links >>

\* C16: the walk and the filter are over before the first worker starts;
\* while any worker is pending or running the main thread is inside the with
\* block and no step changes the store, the seen file or the workbook; the
\* export and the save come only when every future was handed over.
C16_NoSharedMutation == []C16_Phases /\ [][C16_Steps]_vars

\* One future has been handed over while another worker is at its second
\* item and a third has not started.
C16_Witness ==
    /\ pc = "join"
    /\ \E w, v, x \in DOMAIN workers :
         /\ workers[w].st = "merged"
         /\ workers[v].st = "running" /\ workers[v].i = 2
         /\ workers[x].st = "pending"

(***************************************************************************)
(* C17: what a failure inside a worker does to the run (Spec).             *)
(***************************************************************************)
\* C17 as stated: once the fan-out has started no failure inside a worker,
\* the opening of its session included, leaves the worker: the run is never
\* on the way out with an exception, it goes on to the export and the save.
C17_NoAbortAfterFanOut ==
    workers # << >> => pc \notin { "unwind", "aborted" }

(***************************************************************************)
(* C18: the walker terminates (SpecWalkFair).                              *)
(***************************************************************************)
\* Every page after which the loop went on added an identifier; so no more
\* than max_lots pages are requested, and never more than max_lots
\* identifiers are held or returned.
C18_Bounded ==
    /\ \A j \in 1..(Len(fetched) - 1) : fetched[j].total > fetched[j].before
    /\ Len(fetched) <= max_lots
    /\ Cardinality(lot_links) <= max_lots
    /\ Len(all_links) <= max_lots

\* C18: for every catalog, the one that has a new link on every page for
\* ever included, and every max_lots, get_listing_urls ends (it returns, or
\* an exception leaves it) after at most max_lots page requests, each page
\* it went on from having added an identifier, with at most max_lots
\* identifiers.
C18_WalkerTerminates == []C18_Bounded /\ <>(pc \in { "filter", "aborted" })

\* The catalog with a new link on every page: the walker returned after
\* max_lots pages with max_lots identifiers.
C18_Witness ==
    /\ catalog = "fresh"
    /\ max_lots = MaxTarget
    /\ pc = "filter"
    /\ Len(fetched) = max_lots
    /\ Len(all_links) = max_lots

(***************************************************************************)
(* C19: one session per shard that is not empty (Spec).                    *)
(***************************************************************************)
\* The requests made for identifier u: (worker, position in its log) pairs.
RequestsFor(u) ==
    { pr \in UNION { { << w, k >> : k \in 1..Len(workers[w].got) } :
                      w \in DOMAIN workers } :
        workers[pr[1]].got[pr[2]] = u }

\* The with block was left without an exception.
Joined == workers # << >> /\ pc \in { "export", "save", "done" }

\* The run is over and it had new links.
RunOver == workers # << >> /\ pc \in { "done", "aborted" }

RECURSIVE Replay(_, _)
Replay(bs, book) ==
    IF bs = << >> THEN book
    ELSE Replay(Tail(bs), append_rows_with_documents(Head(bs), book))

\* The batches without their records that have no attachment.
RECURSIVE DropZero(_)
DropZero(bs) ==
    IF bs = << >> THEN << >>
    ELSE << SelectSeq(Head(bs), LAMBDA r : r.docs # << >>) >> \o DropZero(Tail(bs))

\* The rows of a sheet below its header.
Below(sheet) == IF sheet = << >> THEN << >> ELSE Tail(sheet)

\* C20: the row of sheet ALL of a record with an empty attachment list has
\* the marker for zero documents (count 0) and no link; and sheet Documents
\* holds, below its header, exactly the rows it would hold had the records
\* without attachments never been exported: they add no row, change none
\* and move none.
C20_ZeroAttachments ==
    /\ \A i \in 1..Len(Exported) :
         Exported[i].docs = << >> =>
             /\ ws_main[i + 1].src = Exported[i].src
             /\ ws_main[i + 1].count = 0
             /\ ws_main[i + 1].link = 0
    /\ Below(ws_docs)
         = Below(Replay(DropZero(batches), [ main |-> << >>, docs |-> << >> ]).docs)

\* A record with attachments, then in a second call a record with a key
\* and no attachment: one Documents row, the second row of ALL unlinked.
C20_Witness ==
    /\ Len(batches) = 2
    /\ Len(Exported) = 2
    /\ HasDocs(Exported[1])
    /\ Exported[2].docs = << >> /\ Strip(Exported[2].key) # << >>
    /\ Len(ws_docs) = 2
    /\ ws_main[3].link = 0 /\ ws_main[3].count = 0
    /\ ws_main[2].link = 2

(***************************************************************************)
(* C21: the two sentinels of the deposit (Spec).                           *)
(***************************************************************************)
\* The price block of the page of u has a deposit entry with no text.
EmptyDeposit(u) ==
    /\ "deposit" \in DOMAIN DetailPage(u).prices
    /\ DetailPage(u).prices["deposit"] = ""

\* Every record of the run, wherever it is: with a worker, merged, or in a
\* row of sheet ALL.
RowsHeld ==
    UNION { Range(workers[w].out_rows) : w \in DOMAIN workers }
    \cup Range(results_rows)
    \cup { ws_main[i] : i \in 2..Len(ws_main) }

\* C21: the two sentinels are different texts; the record of a page whose
\* price block has an empty deposit carries the sentinel "absent" from the
\* worker's list to the row of sheet ALL; and no record has the sentinel
\* "not found" for a deposit unless the page itself has that text.
C21_SentinelDistinct ==
    /\ ABSENT # NOT_FOUND
    /\ \A r \in RowsHeld :
         /\ EmptyDeposit(r.src) => r.deposit = ABSENT
         /\ r.deposit = NOT_FOUND =>
              /\ "deposit" \in DOMAIN DetailPage(r.src).prices
              /\ DetailPage(r.src).prices["deposit"] = NOT_FOUND
         /\ r.deposit = Zadatok(DetailPage(r.src).prices)

\* Lot 1, whose price block has an empty deposit, is in sheet ALL with the
\* sentinel "absent"; lot 2, which has a start price only, is too.
C21_Witness ==
    /\ pc = "done"
    /\ EmptyDeposit(Abs(1))
    /\ \E i, j \in 2..Len(ws_main) :
         /\ ws_main[i].src = Abs(1) /\ ws_main[i].deposit = ABSENT
         /\ ws_main[j].src = Abs(2) /\ ws_main[j].deposit = ABSENT
         /\ ws_main[j].price # NOT_FOUND

(***************************************************************************)
(* C22: the browsers a run leaves behind (Spec).                           *)
(***************************************************************************)
\* The script has ended: normally, by SystemExit, or with an exception.
RunEnded == pc \in { "done", "aborted", "exit1" }

\* C22 as stated: when the run has ended, on whatever path, no browser it
\* started is still open: not the listing session's, not a worker's, and not
\* one whose constructor raised after the browser was started.
C22_SessionsReleased ==
    RunEnded =>
        /\ listing_parser \notin { "open", "leaked" }
        /\ \A w \in DOMAIN workers : workers[w].browser # "open"

====
